---- MODULE Spec2Model ----
(***************************************************************************)
(* Tournament lifecycle of the Tournaz backend: the request handlers of    *)
(* server/src/controllers/tournamentController.js acting on one tournament *)
(* document, and the document methods of server/src/models/tournament.js.  *)
(*                                                                         *)
(* Every handler loads one document by id, mutates it and saves it; no     *)
(* handler touches two documents.  The model therefore follows a single    *)
(* tournament id: before the create request the id names no document (404),*)
(* after a delete it names none again, and ids are never reused.           *)
(*                                                                         *)
(* An optional value (a JavaScript undefined, an unset schema path) is the *)
(* empty tuple, a present value v is <<v>>.  A string whose length matters *)
(* is a sequence of characters.  Time is a bounded clock.  mongoose's own  *)
(* createdAt/updatedAt bookkeeping is not part of the model.               *)
(***************************************************************************)
EXTENDS Integers, Sequences, FiniteSets, TLC

VARIABLES
    doc,      \* the stored tournament document: None, or <<record>>
    born,     \* TRUE once the id has been given to a created document
    now,      \* the clock read by new Date()
    last,     \* the last request and its response
    pc,       \* per concurrent registration request: its position
    copy,     \* per concurrent registration request: its loaded document
    arg,      \* per concurrent registration request: its request body
    seen,     \* per concurrent registration request: how many teams it loaded
    ident,    \* the stored user documents, by user
    tok,      \* the session a client holds: who logged in, when, and the token
    sent,     \* the Authorization header of the last request
    reg,      \* per register request in flight: its position, body and response
    run       \* per interleaved tournament request: the request, what it loaded and
              \* changed in memory, its position and its response

vars == <<doc, born, now, last, pc, copy, arg, seen, ident, tok, sent, reg, run>>

\* the state of authentication and of requests in flight, which a tournament
\* request answered in one step leaves alone
authVars == <<ident, tok, sent, reg, run>>

----------------------------------------------------------------------------
(* Bounds of the model *)

MaxTime == 1
MaxRegistrations == 3
MaxTokenClock == 7
MaxLogins == 1

(* Program constants *)

DefaultMaxTeams == 16
MinTeams == 2
MaxTeamsLimit == 64
MinReasonLength == 10
TokenLifetime == 7      \* expiresIn: '7d', in days

----------------------------------------------------------------------------
(* Optional values *)

None == << >>
Some(v) == <<v>>
IsSome(o) == o # << >>
Get(o) == o[1]

(* Strings as character sequences *)

Rep(c, n) == [i \in 1..n |-> c]

RECURSIVE TrimLeft(_)
TrimLeft(s) == IF s # << >> /\ Head(s) = " " THEN TrimLeft(Tail(s)) ELSE s

RECURSIVE TrimRight(_)
TrimRight(s) ==
    IF s # << >> /\ s[Len(s)] = " " THEN TrimRight(SubSeq(s, 1, Len(s) - 1)) ELSE s

\* String.prototype.trim
trim(s) == TrimRight(TrimLeft(s))

----------------------------------------------------------------------------
(* Identities: the claims a verified token puts in req.user *)

Users == {"org1", "fac1", "fac2", "adm1", "stu1"}

\* the identities that send create requests: an organizer, a faculty member, a student
Creators == {"org1", "fac1", "stu1"}

primaryRole(u) ==
    CASE u = "org1" -> "organizer"
      [] u \in {"fac1", "fac2"} -> "faculty"
      [] u = "adm1" -> "admin"
      [] OTHER -> "student"

secondaryRoles(u) == IF u = "stu1" THEN {"co_organizer", "team_captain"} ELSE {}

\* the identities that log in
TokenUsers == {"fac1", "stu1"}

\* a user document (userSchema) as first stored; _id is an ObjectId
UserRecord(u) ==
    [_id |-> [oid |-> u], email |-> <<u, "email">>, primaryRole |-> primaryRole(u),
     secondaryRoles |-> secondaryRoles(u), collegeId |-> <<u, "collegeId">>,
     fullName |-> <<u, "fullName">>, isEmailVerified |-> u # "stu1",
     isActive |-> TRUE, password |-> <<u, "password">>,
     lastLogin |-> None, loginCount |-> 0]

\* the role a stored user document is changed to: a demotion, or a promotion
ChangedRole(u) == IF primaryRole(u) = "student" THEN "faculty" ELSE "student"

\* register requests that run at the same time
RegProcs == {"g1", "g2"}

\* a register request that has not started
IdleRegistration == [pc |-> "idle", body |-> << >>, code |-> 0, created |-> << >>]

----------------------------------------------------------------------------
(* The tournament document (tournamentSchema) *)

Statuses ==
    {"draft", "pending_approval", "registration_open", "registration_closed",
     "ongoing", "completed", "cancelled", "rejected"}

RegistrationTypes == {"team", "solo", "hybrid"}

\* approvalStatus of a new document: approved defaults to false, the rest unset
DefaultApproval ==
    [approved |-> FALSE, approvedBy |-> None, approvedAt |-> None,
     rejectionReason |-> None]

\* NewTournament with the flag tested for truth, so that an omitted flag counts as false
NewTournament_truthy(b, u) ==
    [name |-> b.name,
     registrationStart |-> None,
     registrationEnd |-> b.registrationEnd,
     registrationType |->
         IF IsSome(b.registrationType) THEN Get(b.registrationType) ELSE "team",
     maxTeams |->
         IF IsSome(b.maxTeams) /\ Get(b.maxTeams) # 0
         THEN Get(b.maxTeams) ELSE DefaultMaxTeams,
     requiresFacultyApproval |-> b.requiresFacultyApproval = Some(TRUE),
     organizer |-> u,
     status |->
         IF b.requiresFacultyApproval = Some(TRUE)
         THEN "draft" ELSE "registration_open",
     approvalStatus |-> DefaultApproval,
     registeredTeams |-> << >>,
     soloPlayers |-> << >>]

\* new Tournament({...}) in createTournament, with the schema defaults
NewTournament(b, u) ==
    [name |-> b.name,
     registrationStart |-> None,
     registrationEnd |-> b.registrationEnd,
     registrationType |->
         IF IsSome(b.registrationType) THEN Get(b.registrationType) ELSE "team",
     maxTeams |->
         IF IsSome(b.maxTeams) /\ Get(b.maxTeams) # 0
         THEN Get(b.maxTeams) ELSE DefaultMaxTeams,
     requiresFacultyApproval |-> b.requiresFacultyApproval # Some(FALSE),
     organizer |-> u,
     status |->
         IF b.requiresFacultyApproval = Some(FALSE)
         THEN "registration_open" ELSE "draft",
     approvalStatus |-> DefaultApproval,
     registeredTeams |-> << >>,
     soloPlayers |-> << >>]

\* the schema validation save() runs: required paths, enum, min and max
Validate(t) ==
    /\ IsSome(t.name) /\ Get(t.name) # ""
    /\ IsSome(t.registrationEnd)
    /\ t.registrationType \in RegistrationTypes
    /\ t.status \in Statuses
    /\ t.maxTeams >= MinTeams /\ t.maxTeams <= MaxTeamsLimit

(* Virtual properties *)

\* isRegistrationOpen without the test of registrationStart
isRegistrationOpen_endOnly(t, time) == time <= Get(t.registrationEnd)

isRegistrationOpen(t, time) ==
    IF IsSome(t.registrationStart) /\ IsSome(t.registrationEnd)
    THEN time >= Get(t.registrationStart) /\ time <= Get(t.registrationEnd)
    ELSE time <= Get(t.registrationEnd)

canRegister(t, time) ==
    t.status = "registration_open" /\ isRegistrationOpen(t, time)

\* isFull with > for >=
isFull_offByOne(t) == Len(t.registeredTeams) > t.maxTeams

isFull(t) == Len(t.registeredTeams) >= t.maxTeams

(* Document methods *)

\* canUserManage counting the recorded faculty only once the tournament is approved
canUserManage_approvedOnly(t, u) ==
    LET isOrganizer == t.organizer = u
        isFacultyApprover ==
            /\ t.approvalStatus.approved
            /\ IsSome(t.approvalStatus.approvedBy) /\ Get(t.approvalStatus.approvedBy) = u
    IN  isOrganizer \/ isFacultyApprover \/ primaryRole(u) = "admin"

\* canUserManage counting every faculty identity as the faculty approver
canUserManage_anyFaculty(t, u) ==
    LET isOrganizer == t.organizer = u
        isFacultyApprover == primaryRole(u) = "faculty"
    IN  isOrganizer \/ isFacultyApprover \/ primaryRole(u) = "admin"

canUserManage(t, u) ==
    LET isOrganizer == t.organizer = u
        isFacultyApprover ==
            IsSome(t.approvalStatus.approvedBy) /\ Get(t.approvalStatus.approvedBy) = u
    IN  isOrganizer \/ isFacultyApprover \/ primaryRole(u) = "admin"

canApprove(t, u) == primaryRole(u) = "faculty" /\ t.status = "pending_approval"

\* registerTeam throws 'Cannot register team' exactly when this holds
registerTeamThrows(t, time) == isFull(t) \/ ~canRegister(t, time)

\* registerTeam with the approved flag's test inverted
registerTeam_approvedForTeam(t, teamId, captainId, time) ==
    [t EXCEPT !.registeredTeams =
        Append(@, [team |-> teamId, captain |-> captainId, registeredAt |-> time,
                   approved |-> t.registrationType = "team"])]

\* registerTeam past its guard: the push
registerTeam(t, teamId, captainId, time) ==
    [t EXCEPT !.registeredTeams =
        Append(@, [team |-> teamId, captain |-> captainId, registeredAt |-> time,
                   approved |-> t.registrationType # "team"])]

\* a call of registerTeam: the document afterwards and the message of the Error thrown
callRegisterTeam(t, teamId, captainId, time) ==
    IF registerTeamThrows(t, time)
    THEN [doc |-> t, error |-> "Cannot register team"]
    ELSE [doc |-> registerTeam(t, teamId, captainId, time), error |-> ""]

\* registerSolo's guard without the test of the registration type
registerSoloThrows_anyType(t, time) == ~canRegister(t, time)

\* registerSolo throws 'Solo registration not allowed' exactly when this holds
registerSoloThrows(t, time) == ~canRegister(t, time) \/ t.registrationType = "team"

\* registerSolo past its guard: the push
registerSolo(t, userId, time) ==
    [t EXCEPT !.soloPlayers =
        Append(@, [player |-> userId, registeredAt |-> time, matched |-> FALSE])]

\* a call of registerSolo: the document afterwards and the message of the Error thrown
callRegisterSolo(t, userId, time) ==
    IF registerSoloThrows(t, time)
    THEN [doc |-> t, error |-> "Solo registration not allowed"]
    ELSE [doc |-> registerSolo(t, userId, time), error |-> ""]

----------------------------------------------------------------------------
(* Request handlers: the stored document after the request, and the response *)

Reply(d, code, error) == [doc |-> d, code |-> code, error |-> error]

\* the names updateTournament copies from the request body
allowedUpdates == {"name", "registrationEnd", "registrationType", "maxTeams"}

\* createTournament admitting an identity on its secondary role co_organizer
createTournament_secondary(d, u, b, time) ==
    IF /\ primaryRole(u) \notin {"organizer", "faculty", "admin"}
       /\ "co_organizer" \notin secondaryRoles(u)
    THEN Reply(d, 403, "You do not have permission to create tournaments")
    ELSE LET t == NewTournament(b, u)
         IN  IF Validate(t)
             THEN Reply(Some(t), 201, "")
             ELSE Reply(d, 400, "Validation failed")

createTournament(d, u, b, time) ==
    IF primaryRole(u) \notin {"organizer", "faculty", "admin"}
    THEN Reply(d, 403, "You do not have permission to create tournaments")
    ELSE LET t == NewTournament(b, u)
         IN  IF Validate(t)
             THEN Reply(Some(t), 201, "")
             ELSE Reply(d, 400, "Validation failed")

\* the forEach over allowedUpdates: a field the body carries overwrites the document's
applyUpdates(t, b) ==
    [t EXCEPT
        !.name = IF IsSome(b.name) THEN b.name ELSE @,
        !.registrationEnd = IF IsSome(b.registrationEnd) THEN b.registrationEnd ELSE @,
        !.registrationType =
            IF IsSome(b.registrationType) THEN Get(b.registrationType) ELSE @,
        !.maxTeams = IF IsSome(b.maxTeams) THEN Get(b.maxTeams) ELSE @]

\* the same branch setting the status without storing the flag
applyApprovalRequirement_statusOnly(t, b) ==
    IF IsSome(b.requiresFacultyApproval)
    THEN [t EXCEPT
            !.status =
                IF Get(b.requiresFacultyApproval) THEN "draft" ELSE "registration_open"]
    ELSE t

\* "If faculty approval requirement changed": runs whenever the body carries the field
applyApprovalRequirement(t, b) ==
    IF IsSome(b.requiresFacultyApproval)
    THEN [t EXCEPT
            !.requiresFacultyApproval = Get(b.requiresFacultyApproval),
            !.status =
                IF Get(b.requiresFacultyApproval) THEN "draft" ELSE "registration_open"]
    ELSE t

updateTournament(d, u, b, time) ==
    IF d = None THEN Reply(d, 404, "Tournament not found")
    ELSE LET t == Get(d) IN
    IF ~canUserManage(t, u) /\ primaryRole(u) # "admin"
    THEN Reply(d, 403, "You do not have permission to update this tournament")
    ELSE IF t.status # "draft" /\ t.status # "pending_approval"
    THEN Reply(d, 400, "Cannot update tournament after approval")
    ELSE LET t2 == applyApprovalRequirement(applyUpdates(t, b), b)
         IN  IF Validate(t2)
             THEN Reply(Some(t2), 200, "")
             ELSE Reply(d, 400, "Validation failed")

\* submitForApproval testing canUserManage where the code tests the organizer
submitForApproval_canManage(d, u, b, time) ==
    IF d = None THEN Reply(d, 404, "Tournament not found")
    ELSE LET t == Get(d) IN
    IF ~canUserManage(t, u)
    THEN Reply(d, 403, "Only the organizer can submit for approval")
    ELSE IF t.status # "draft"
    THEN Reply(d, 400, "Tournament is already <status>")
    ELSE Reply(Some([t EXCEPT !.status = "pending_approval"]), 200, "")

\* submitForApproval with its status test inverted
submitForApproval_inverted(d, u, b, time) ==
    IF d = None THEN Reply(d, 404, "Tournament not found")
    ELSE LET t == Get(d) IN
    IF t.organizer # u
    THEN Reply(d, 403, "Only the organizer can submit for approval")
    ELSE IF t.status = "draft"
    THEN Reply(d, 400, "Tournament is already <status>")
    ELSE Reply(Some([t EXCEPT !.status = "pending_approval"]), 200, "")

submitForApproval(d, u, b, time) ==
    IF d = None THEN Reply(d, 404, "Tournament not found")
    ELSE LET t == Get(d) IN
    IF t.organizer # u
    THEN Reply(d, 403, "Only the organizer can submit for approval")
    ELSE IF t.status # "draft"
    THEN Reply(d, 400, "Tournament is already <status>")
    ELSE Reply(Some([t EXCEPT !.status = "pending_approval"]), 200, "")

\* approveTournament without the check that the tournament is pending approval
approveTournament_unchecked(d, u, b, time) ==
    IF primaryRole(u) # "faculty"
    THEN Reply(d, 403, "You do not have permission to approve tournaments")
    ELSE IF d = None THEN Reply(d, 404, "Tournament not found")
    ELSE Reply(Some([Get(d) EXCEPT
                !.status = "registration_open",
                !.approvalStatus =
                    [approved |-> TRUE, approvedBy |-> Some(u),
                     approvedAt |-> Some(time), rejectionReason |-> None]]),
               200, "")

\* approveTournament recording the tournament's organizer as the approver
approveTournament_organizer(d, u, b, time) ==
    IF primaryRole(u) # "faculty"
    THEN Reply(d, 403, "You do not have permission to approve tournaments")
    ELSE IF d = None THEN Reply(d, 404, "Tournament not found")
    ELSE LET t == Get(d) IN
    IF t.status # "pending_approval"
    THEN Reply(d, 400, "Tournament is not pending approval")
    ELSE Reply(Some([t EXCEPT
                !.status = "registration_open",
                !.approvalStatus =
                    [approved |-> TRUE, approvedBy |-> Some(t.organizer),
                     approvedAt |-> Some(time), rejectionReason |-> None]]),
               200, "")

approveTournament(d, u, b, time) ==
    IF primaryRole(u) # "faculty"
    THEN Reply(d, 403, "You do not have permission to approve tournaments")
    ELSE IF d = None THEN Reply(d, 404, "Tournament not found")
    ELSE LET t == Get(d) IN
    IF t.status # "pending_approval"
    THEN Reply(d, 400, "Tournament is not pending approval")
    ELSE Reply(Some([t EXCEPT
                !.status = "registration_open",
                !.approvalStatus =
                    [approved |-> TRUE, approvedBy |-> Some(u),
                     approvedAt |-> Some(time), rejectionReason |-> None]]),
               200, "")

\* the length test without the trim
reasonTooShort_untrimmed(r) ==
    r = None \/ Get(r) = << >> \/ Len(Get(r)) < MinReasonLength

\* !rejectionReason || rejectionReason.trim().length < 10
reasonTooShort(r) ==
    r = None \/ Get(r) = << >> \/ Len(trim(Get(r))) < MinReasonLength

\* rejectTournament storing the trimmed reason
rejectTournament_trimmed(d, u, b, time) ==
    IF primaryRole(u) # "faculty"
    THEN Reply(d, 403, "You do not have permission to reject tournaments")
    ELSE IF b.rejectionReason = None \/ Len(trim(Get(b.rejectionReason))) < MinReasonLength
    THEN Reply(d, 400, "Rejection reason must be at least 10 characters")
    ELSE IF d = None THEN Reply(d, 404, "Tournament not found")
    ELSE LET t == Get(d) IN
    IF t.status # "pending_approval"
    THEN Reply(d, 400, "Tournament is not pending approval")
    ELSE Reply(Some([t EXCEPT
                !.status = "rejected",
                !.approvalStatus =
                    [approved |-> FALSE, approvedBy |-> Some(u),
                     approvedAt |-> Some(time),
                     rejectionReason |-> Some(trim(Get(b.rejectionReason)))]]),
               200, "")

rejectTournament(d, u, b, time) ==
    IF primaryRole(u) # "faculty"
    THEN Reply(d, 403, "You do not have permission to reject tournaments")
    ELSE IF reasonTooShort(b.rejectionReason)
    THEN Reply(d, 400, "Rejection reason must be at least 10 characters")
    ELSE IF d = None THEN Reply(d, 404, "Tournament not found")
    ELSE LET t == Get(d) IN
    IF t.status # "pending_approval"
    THEN Reply(d, 400, "Tournament is not pending approval")
    ELSE Reply(Some([t EXCEPT
                !.status = "rejected",
                !.approvalStatus =
                    [approved |-> FALSE, approvedBy |-> Some(u),
                     approvedAt |-> Some(time),
                     rejectionReason |-> b.rejectionReason]]),
               200, "")

\* deleteTournament without the test of the status
deleteTournament_anyStatus(d, u, b, time) ==
    IF d = None THEN Reply(d, 404, "Tournament not found")
    ELSE LET t == Get(d) IN
    IF ~canUserManage(t, u) /\ primaryRole(u) # "admin"
    THEN Reply(d, 403, "Not authorized to delete this tournament")
    ELSE Reply(None, 200, "")

deleteTournament(d, u, b, time) ==
    IF d = None THEN Reply(d, 404, "Tournament not found")
    ELSE LET t == Get(d) IN
    IF ~canUserManage(t, u) /\ primaryRole(u) # "admin"
    THEN Reply(d, 403, "Not authorized to delete this tournament")
    ELSE IF t.status # "draft" /\ t.status # "pending_approval"
    THEN Reply(d, 400, "Cannot delete tournament after approval")
    ELSE Reply(None, 200, "")

\* A team registration request run as one step: load, registerTeam, save
registerTeamRequest(d, u, b, time) ==
    IF d = None THEN Reply(d, 404, "Tournament not found")
    ELSE LET t == Get(d) IN
    IF registerTeamThrows(t, time)
    THEN Reply(d, 400, "Cannot register team")
    ELSE Reply(Some(registerTeam(t, Get(b.team), Get(b.captain), time)), 200, "")

----------------------------------------------------------------------------
(* Request bodies *)

EmptyBody ==
    [name |-> None, requiresFacultyApproval |-> None, maxTeams |-> None,
     registrationType |-> None, registrationEnd |-> None, rejectionReason |-> None,
     team |-> None, captain |-> None,
     email |-> None, password |-> None, collegeId |-> None]

\* valid bodies, and one body per way of failing the schema validation
CreateBodies ==
    {[EmptyBody EXCEPT !.name = Some("cup"), !.registrationEnd = Some(0),
                       !.requiresFacultyApproval = r, !.maxTeams = m,
                       !.registrationType = ty] :
        r \in {None, Some(TRUE), Some(FALSE)},
        m \in {None, Some(0), Some(2)},
        ty \in {None, Some("hybrid")}}
    \cup {[EmptyBody EXCEPT !.registrationEnd = Some(0)],
          [EmptyBody EXCEPT !.name = Some("cup")],
          [EmptyBody EXCEPT !.name = Some("cup"), !.registrationEnd = Some(0),
                            !.maxTeams = Some(1)]}

UpdateBodies ==
    {[EmptyBody EXCEPT !.requiresFacultyApproval = r, !.maxTeams = m] :
        r \in {None, Some(TRUE), Some(FALSE)},
        m \in {None, Some(2)}}
    \cup {[EmptyBody EXCEPT !.name = Some("")],
          [EmptyBody EXCEPT !.maxTeams = Some(1)]}

Reasons ==
    {None,
     Some(Rep("x", MinReasonLength - 1)),
     Some(Rep("x", MinReasonLength)),
     Some(Rep(" ", MinReasonLength)),
     Some(<<" ">> \o Rep("x", MinReasonLength))}

RejectBodies == {[EmptyBody EXCEPT !.rejectionReason = r] : r \in Reasons}

RegisterBodies ==
    {[EmptyBody EXCEPT !.team = Some("teamA"), !.captain = Some("stu1")],
     [EmptyBody EXCEPT !.team = Some("teamB"), !.captain = Some("org1")]}

\* an interleaved request that has not started
IdleRequest ==
    [pc |-> "idle", op |-> "none", user |-> "none", body |-> EmptyBody,
     loaded |-> None, changed |-> None, code |-> 0]

Procs == {"r1", "r2"}

----------------------------------------------------------------------------
(* The state machine *)

Init ==
    /\ doc = None
    /\ born = FALSE
    /\ now = 0
    /\ last = [op |-> "none", user |-> "none", body |-> EmptyBody, code |-> 0,
               error |-> "", pre |-> None, at |-> 0]
    /\ pc = [p \in Procs |-> "idle"]
    /\ copy = [p \in Procs |-> None]
    /\ arg = [p \in Procs |-> EmptyBody]
    /\ seen = [p \in Procs |-> 0]
    /\ ident = [u \in Users |-> UserRecord(u)]
    /\ tok = None
    /\ sent = None
    /\ reg = [p \in RegProcs |-> IdleRegistration]
    /\ run = [p \in Procs |-> IdleRequest]

\* a request answered in one step: the handler's effect on the store, and the response
Answer(op, u, b, r) ==
    /\ doc' = r.doc
    /\ last' = [op |-> op, user |-> u, body |-> b, code |-> r.code,
                error |-> r.error, pre |-> doc, at |-> now]
    /\ UNCHANGED <<now, pc, copy, arg, seen>>
    /\ UNCHANGED authVars

Create ==
    /\ ~born
    /\ \E u \in Creators, b \in CreateBodies :
        LET r == createTournament(doc, u, b, now)
        IN  /\ Answer("create", u, b, r)
            /\ born' = (r.code = 201)

Update ==
    /\ \E u \in Users, b \in UpdateBodies :
        Answer("update", u, b, updateTournament(doc, u, b, now))
    /\ UNCHANGED born

Submit ==
    /\ \E u \in Users : Answer("submit", u, EmptyBody, submitForApproval(doc, u, EmptyBody, now))
    /\ UNCHANGED born

Approve ==
    /\ \E u \in Users : Answer("approve", u, EmptyBody, approveTournament(doc, u, EmptyBody, now))
    /\ UNCHANGED born

Reject ==
    /\ \E u \in Users, b \in RejectBodies :
        Answer("reject", u, b, rejectTournament(doc, u, b, now))
    /\ UNCHANGED born

Delete ==
    /\ \E u \in Users : Answer("delete", u, EmptyBody, deleteTournament(doc, u, EmptyBody, now))
    /\ UNCHANGED born

RegisterTeam ==
    /\ doc # None /\ ~registerTeamThrows(Get(doc), now)
           => Len(Get(doc).registeredTeams) < MaxRegistrations
    /\ \E b \in RegisterBodies :
        Answer("registerTeam", Get(b.captain), b,
               registerTeamRequest(doc, Get(b.captain), b, now))
    /\ UNCHANGED born

Tick ==
    /\ now < MaxTime
    /\ now' = now + 1
    /\ UNCHANGED <<doc, born, last, pc, copy, arg, seen>>
    /\ UNCHANGED authVars

Next ==
    \/ Create
    \/ Update
    \/ Submit
    \/ Approve
    \/ Reject
    \/ Delete
    \/ RegisterTeam
    \/ Tick

Spec == Init /\ [][Next]_vars

----------------------------------------------------------------------------
(* Team registration requests that interleave: each loads the document,    *)
(* runs registerTeam on its own copy, and saves.  save() of a document     *)
(* whose array was pushed to sends the pushed entries to the store, which  *)
(* appends them to the array it holds.                                     *)

pushed(c) == c.registeredTeams[Len(c.registeredTeams)]

\* save() writing the request's whole copy over the stored document
saveRegistration_overwrite(d, c) == Some(c)

saveRegistration(d, c) ==
    Some([Get(d) EXCEPT !.registeredTeams = Append(@, pushed(c))])

RaceLoad(p) ==
    /\ pc[p] = "idle"
    /\ doc # None
    /\ Len(Get(doc).registeredTeams) < MaxRegistrations
    /\ \E b \in RegisterBodies : arg' = [arg EXCEPT ![p] = b]
    /\ copy' = [copy EXCEPT ![p] = doc]
    /\ seen' = [seen EXCEPT ![p] = Len(Get(doc).registeredTeams)]
    /\ pc' = [pc EXCEPT ![p] = "loaded"]
    /\ UNCHANGED <<doc, born, now, last>>
    /\ UNCHANGED authVars

RaceRegister(p) ==
    /\ pc[p] = "loaded"
    /\ IF registerTeamThrows(Get(copy[p]), now)
       THEN /\ pc' = [pc EXCEPT ![p] = "failed"]
            /\ UNCHANGED copy
       ELSE /\ pc' = [pc EXCEPT ![p] = "registered"]
            /\ copy' = [copy EXCEPT ![p] =
                   Some(registerTeam(Get(copy[p]), Get(arg[p].team),
                                     Get(arg[p].captain), now))]
    /\ UNCHANGED <<doc, born, now, last, arg, seen>>
    /\ UNCHANGED authVars

RaceSave(p) ==
    /\ pc[p] = "registered"
    /\ doc # None
    /\ doc' = saveRegistration(doc, Get(copy[p]))
    /\ pc' = [pc EXCEPT ![p] = "done"]
    /\ UNCHANGED <<born, now, last, copy, arg, seen>>
    /\ UNCHANGED authVars

NextRace ==
    \/ Create
    \/ RegisterTeam
    \/ Tick
    \/ \E p \in Procs : RaceLoad(p)
    \/ \E p \in Procs : RaceRegister(p)
    \/ \E p \in Procs : RaceSave(p)

SpecRace == Init /\ [][NextRace]_vars

----------------------------------------------------------------------------
(* The document methods called directly on a document of the schema.  No   *)
(* handler sets registrationStart, so the documents here are drawn from    *)
(* what the schema admits, with and without a start of the window.         *)

MethodDocuments ==
    {[name |-> Some("cup"),
      registrationStart |-> s,
      registrationEnd |-> Some(e),
      registrationType |-> ty,
      maxTeams |-> MinTeams,
      requiresFacultyApproval |-> TRUE,
      organizer |-> "org1",
      status |-> st,
      approvalStatus |-> a,
      registeredTeams |-> << >>,
      soloPlayers |-> << >>] :
        s \in {None, Some(1)},
        e \in {0, 1},
        ty \in RegistrationTypes,
        st \in Statuses,
        a \in {DefaultApproval,
               [approved |-> TRUE, approvedBy |-> Some("fac1"),
                approvedAt |-> Some(0), rejectionReason |-> None]}}

SoloPlayers == {"stu1", "fac1"}

InitMethods ==
    /\ doc \in {Some(t) : t \in MethodDocuments}
    /\ born = TRUE
    /\ now \in 0..MaxTime
    /\ last = [op |-> "none", user |-> "none", body |-> EmptyBody, code |-> 0,
               error |-> "", pre |-> None, at |-> 0]
    /\ pc = [p \in Procs |-> "idle"]
    /\ copy = [p \in Procs |-> None]
    /\ arg = [p \in Procs |-> EmptyBody]
    /\ seen = [p \in Procs |-> 0]
    /\ ident = [u \in Users |-> UserRecord(u)]
    /\ tok = None
    /\ sent = None
    /\ reg = [p \in RegProcs |-> IdleRegistration]
    /\ run = [p \in Procs |-> IdleRequest]

\* a method called on the document: what it leaves, and the error it threw
Called(op, u, b, r) ==
    /\ doc' = Some(r.doc)
    /\ last' = [op |-> op, user |-> u, body |-> b, code |-> 0,
                error |-> r.error, pre |-> doc, at |-> now]
    /\ UNCHANGED <<born, now, pc, copy, arg, seen>>
    /\ UNCHANGED authVars

CallRegisterTeam ==
    /\ ~registerTeamThrows(Get(doc), now)
           => Len(Get(doc).registeredTeams) < MaxRegistrations
    /\ \E b \in RegisterBodies :
        Called("registerTeam", Get(b.captain), b,
               callRegisterTeam(Get(doc), Get(b.team), Get(b.captain), now))

CallRegisterSolo ==
    /\ ~registerSoloThrows(Get(doc), now)
           => Len(Get(doc).soloPlayers) < MaxRegistrations
    /\ \E u \in SoloPlayers :
        Called("registerSolo", u, EmptyBody, callRegisterSolo(Get(doc), u, now))

NextMethods ==
    \/ CallRegisterTeam
    \/ CallRegisterSolo
    \/ Tick

SpecMethods == InitMethods /\ [][NextMethods]_vars

----------------------------------------------------------------------------
(* Tokens (utils/jwt.js) and requireAuth (middlewares/authMiddleware.js).  *)
(* A token is the payload as JSON, the issue and expiry times that         *)
(* jsonwebtoken adds, and the signature, which stands for the secret that  *)
(* made it.  The clock of this part counts days.                           *)

Secret == "JWT_SECRET"

\* ObjectId.prototype.toString, which JSON.stringify applies to an ObjectId
ObjectIdToString(id) == id.oid

\* jwt.sign(payload, secret, {expiresIn: '7d'})
jwtSign(payload, secret, time) ==
    [payload |-> [payload EXCEPT !.userId = ObjectIdToString(@)],
     iat |-> time, exp |-> time + TokenLifetime, signature |-> secret]

\* generateToken without the secondary roles in the payload
generateToken_noSecondary(user, time) ==
    jwtSign([userId |-> user._id, email |-> user.email,
             primaryRole |-> user.primaryRole, secondaryRoles |-> {},
             collegeId |-> user.collegeId, fullName |-> user.fullName,
             isEmailVerified |-> user.isEmailVerified],
            Secret, time)

generateToken(user, time) ==
    jwtSign([userId |-> user._id, email |-> user.email,
             primaryRole |-> user.primaryRole, secondaryRoles |-> user.secondaryRoles,
             collegeId |-> user.collegeId, fullName |-> user.fullName,
             isEmailVerified |-> user.isEmailVerified],
            Secret, time)

\* jwt.verify(token, secret): the signature first, then the expiry; the decoded
\* payload carries iat and exp beside the claims
jwtVerify(token, secret, time) ==
    IF token.signature # secret
    THEN [name |-> "JsonWebTokenError", decoded |-> None]
    ELSE IF time >= token.exp
    THEN [name |-> "TokenExpiredError", decoded |-> None]
    ELSE [name |-> "",
          decoded |-> Some([userId |-> token.payload.userId,
                            email |-> token.payload.email,
                            primaryRole |-> token.payload.primaryRole,
                            secondaryRoles |-> token.payload.secondaryRoles,
                            collegeId |-> token.payload.collegeId,
                            fullName |-> token.payload.fullName,
                            isEmailVerified |-> token.payload.isEmailVerified,
                            iat |-> token.iat, exp |-> token.exp])]

\* verifyToken: the decoded payload, or the message of the Error it throws
verifyToken(token, time) ==
    LET r == jwtVerify(token, Secret, time)
    IN  [decoded |-> r.decoded,
         error |-> CASE r.name = "" -> ""
                     [] r.name = "TokenExpiredError" -> "Token expired"
                     [] r.name = "JsonWebTokenError" ->
                            "Invalid token. Please login again."
                     [] OTHER -> "Authentication failed."]

\* An Authorization header is its scheme, a sequence of characters, and what follows
\* the first space: a token, or nothing.
Bearer == <<"B", "e", "a", "r", "e", "r">>
Basic == <<"B", "a", "s", "i", "c">>

\* String.prototype.startsWith
startsWith(str, prefix) ==
    Len(str) >= Len(prefix) /\ SubSeq(str, 1, Len(prefix)) = prefix

\* authHeader.split(' ')[1] given to verifyToken: jwt.verify refuses an undefined
\* token with a JsonWebTokenError
verifyHeaderToken(part, time) ==
    IF part = None
    THEN [decoded |-> None, error |-> "Invalid token. Please login again."]
    ELSE verifyToken(Get(part), time)

\* requireAuth looking the identity up and refusing a deactivated or re-roled one
requireAuth_currentIdentity(header, time) ==
    IF header = None \/ ~startsWith(Get(header).scheme, Bearer)
    THEN [code |-> 401, error |-> "Access denied. No token provided.", user |-> None]
    ELSE LET v == verifyHeaderToken(Get(header).token, time) IN
    IF v.error # ""
    THEN [code |-> 401, error |-> v.error, user |-> None]
    ELSE IF \/ ~ident[Get(v.decoded).userId].isActive
            \/ ident[Get(v.decoded).userId].primaryRole # Get(v.decoded).primaryRole
    THEN [code |-> 401, error |-> "Authentication failed", user |-> None]
    ELSE [code |-> 0, error |-> "", user |-> v.decoded]

\* requireAuth: 401 and its message, or req.user and next()
requireAuth(header, time) ==
    IF header = None \/ ~startsWith(Get(header).scheme, Bearer)
    THEN [code |-> 401, error |-> "Access denied. No token provided.", user |-> None]
    ELSE LET v == verifyHeaderToken(Get(header).token, time) IN
    IF v.error # ""
    THEN [code |-> 401, error |-> v.error, user |-> None]
    ELSE [code |-> 0, error |-> "", user |-> v.decoded]

\* the Authorization headers of a client with a session: none, or the token it holds
Headers ==
    {None} \cup
    (IF tok = None THEN {}
     ELSE {Some([scheme |-> Bearer, token |-> Some(Get(tok).token)])})

\* the body of the create requests of this part
TokenCreateBody ==
    [EmptyBody EXCEPT !.name = Some("cup"), !.registrationEnd = Some(0)]

\* User.findOne({ email }): the stored users with that email
findByEmail(users, email) == {u \in DOMAIN users : Some(users[u].email) = email}

\* comparePassword: bcrypt.compare of the candidate with the stored hash, which
\* holds exactly for the password the hash was made from
comparePassword(user, candidate) == candidate = Some(user.password)

LoginReply(users, u, code, error, token) ==
    [users |-> users, user |-> u, code |-> code, error |-> error, token |-> token]

\* login testing the password before the account's isActive flag
login_passwordFirst(users, b, time) ==
    LET found == findByEmail(users, b.email) IN
    IF found = {}
    THEN LoginReply(users, "none", 401, "Invalid email or password", None)
    ELSE LET u == CHOOSE x \in found : TRUE IN
    IF ~comparePassword(users[u], b.password)
    THEN LoginReply(users, u, 401, "Invalid email or password", None)
    ELSE IF ~users[u].isActive
    THEN LoginReply(users, u, 403, "Account is deactivated. Please contact admin.", None)
    ELSE LET saved == [users EXCEPT ![u].lastLogin = Some(time),
                                    ![u].loginCount = @ + 1]
         IN  LoginReply(saved, u, 200, "", Some(generateToken(saved[u], time)))

\* login: the users afterwards, the response, and the token it carries
login(users, b, time) ==
    LET found == findByEmail(users, b.email) IN
    IF found = {}
    THEN LoginReply(users, "none", 401, "Invalid email or password", None)
    ELSE LET u == CHOOSE x \in found : TRUE IN
    IF ~users[u].isActive
    THEN LoginReply(users, u, 403, "Account is deactivated. Please contact admin.", None)
    ELSE IF ~comparePassword(users[u], b.password)
    THEN LoginReply(users, u, 401, "Invalid email or password", None)
    ELSE LET saved == [users EXCEPT ![u].lastLogin = Some(time),
                                    ![u].loginCount = @ + 1]
         IN  LoginReply(saved, u, 200, "", Some(generateToken(saved[u], time)))

\* login bodies with the user's password
SessionBodies ==
    {[EmptyBody EXCEPT !.email = Some(UserRecord(u).email),
                       !.password = Some(UserRecord(u).password)] : u \in TokenUsers}

\* login bodies: each user with the right and with a wrong password, and an email
\* no user has
LoginBodies ==
    {[EmptyBody EXCEPT !.email = Some(UserRecord(u).email),
                       !.password = Some(IF right THEN UserRecord(u).password
                                         ELSE <<"wrong", "password">>)] :
        u \in TokenUsers, right \in BOOLEAN}
    \cup {[EmptyBody EXCEPT !.email = Some(<<"nobody", "email">>),
                            !.password = Some(<<"wrong", "password">>)]}

\* the logins the users in S have made
RECURSIVE Logins(_, _)
Logins(users, S) ==
    IF S = {} THEN 0
    ELSE LET u == CHOOSE x \in S : TRUE
         IN  users[u].loginCount + Logins(users, S \ {u})

\* a login request answered.  The handlers read the role of req.user as
\* primaryRole(u), so a session starts only while the stored role is still the one
\* primaryRole(u) gives.
LoginWith(b) ==
    LET r == login(ident, b, now) IN
    /\ r.code = 200 =>
          /\ ident[r.user].primaryRole = primaryRole(r.user)
          /\ Logins(ident, DOMAIN ident) < MaxLogins
    /\ ident' = r.users
    /\ tok' = IF r.code = 200
              THEN Some([for |-> r.user, at |-> now, token |-> Get(r.token)])
              ELSE tok
    /\ last' = [op |-> "login", user |-> r.user, body |-> b, code |-> r.code,
                error |-> r.error, pre |-> doc, at |-> now]
    /\ UNCHANGED <<doc, born, now, pc, copy, arg, seen, sent, reg, run>>

\* a login with the user's own password
Login == \E b \in SessionBodies : LoginWith(b)

\* a login with any of the bodies
LoginAttempt == \E b \in LoginBodies : LoginWith(b)

\* the holder of a session
Holds(u) == tok # None /\ Get(tok).for = u

\* the stored user document of a session's holder is deactivated
Deactivate ==
    /\ \E u \in TokenUsers :
        /\ Holds(u)
        /\ ident[u].isActive
        /\ ident' = [ident EXCEPT ![u].isActive = FALSE]
    /\ UNCHANGED <<doc, born, now, last, pc, copy, arg, seen, tok, sent, reg, run>>

\* the stored user document of a session's holder is given another primary role
ChangeRole ==
    /\ \E u \in TokenUsers :
        /\ Holds(u)
        /\ ident[u].primaryRole = primaryRole(u)
        /\ ident' = [ident EXCEPT ![u].primaryRole = ChangedRole(u)]
    /\ UNCHANGED <<doc, born, now, last, pc, copy, arg, seen, tok, sent, reg, run>>

TickDay ==
    /\ now < MaxTokenClock
    /\ now' = now + 1
    /\ UNCHANGED <<doc, born, last, pc, copy, arg, seen, ident, tok, sent, reg, run>>

\* req.user.userId once requireAuth has passed the request on
Requester(h) ==
    LET a == requireAuth(h, now)
    IN  IF a.user = None THEN "none" ELSE Get(a.user).userId

\* a request on a protected route: requireAuth's 401, or the handler's reply r
Authenticated(op, b, h, r) ==
    LET a == requireAuth(h, now)
        reply == IF a.user = None THEN Reply(doc, a.code, a.error) ELSE r
    IN  /\ sent' = h
        /\ doc' = reply.doc
        /\ last' = [op |-> op, user |-> Requester(h), body |-> b, code |-> reply.code,
                    error |-> reply.error, pre |-> doc, at |-> now]
        /\ born' = (born \/ reply.code = 201)
        /\ UNCHANGED <<now, pc, copy, arg, seen, ident, tok, reg, run>>

AuthCreate ==
    /\ ~born
    /\ \E h \in Headers :
        Authenticated("create", TokenCreateBody, h,
                      createTournament(doc, Requester(h), TokenCreateBody, now))

AuthSubmit ==
    \E h \in Headers :
        Authenticated("submit", EmptyBody, h,
                      submitForApproval(doc, Requester(h), EmptyBody, now))

AuthApprove ==
    \E h \in Headers :
        Authenticated("approve", EmptyBody, h,
                      approveTournament(doc, Requester(h), EmptyBody, now))

NextToken ==
    \/ Login
    \/ Deactivate
    \/ ChangeRole
    \/ TickDay
    \/ AuthCreate
    \/ AuthSubmit
    \/ AuthApprove

SpecToken == Init /\ [][NextToken]_vars

----------------------------------------------------------------------------
(* Authentication: logins with right and wrong passwords, and requests with *)
(* every kind of Authorization header.                                      *)

\* the headers a client sends: none; the token it holds under the scheme Bearer,
\* Basic, or one that begins with Bearer; that token signed by someone else; Bearer
\* with nothing after it
AllHeaders ==
    {None} \cup
    (IF tok = None THEN {Some([scheme |-> Bearer, token |-> None])}
     ELSE {Some([scheme |-> sc, token |-> Some(Get(tok).token)]) :
              sc \in {Bearer, Basic, Bearer \o <<"x">>}}
          \cup {Some([scheme |-> Bearer,
                      token |-> Some([Get(tok).token EXCEPT !.signature = "forged"])]),
                Some([scheme |-> Bearer, token |-> None])})

RequestCreate ==
    /\ ~born
    /\ \E h \in AllHeaders :
        Authenticated("create", TokenCreateBody, h,
                      createTournament(doc, Requester(h), TokenCreateBody, now))

RequestSubmit ==
    \E h \in AllHeaders :
        Authenticated("submit", EmptyBody, h,
                      submitForApproval(doc, Requester(h), EmptyBody, now))

RequestApprove ==
    \E h \in AllHeaders :
        Authenticated("approve", EmptyBody, h,
                      approveTournament(doc, Requester(h), EmptyBody, now))

NextAuth ==
    \/ LoginAttempt
    \/ Deactivate
    \/ TickDay
    \/ RequestCreate
    \/ RequestSubmit
    \/ RequestApprove

SpecAuth == Init /\ [][NextAuth]_vars

----------------------------------------------------------------------------
(* Registration (authController.register).  A request looks the user up,    *)
(* and later saves; between the two another request may do either.  The     *)
(* store's unique indexes on email and collegeId are checked by the insert. *)

\* String.prototype.toLowerCase and toUpperCase, on the letters used here
toLowerCase(str) ==
    [i \in 1..Len(str) |->
        CASE str[i] = "A" -> "a" [] str[i] = "B" -> "b" [] str[i] = "C" -> "c"
          [] OTHER -> str[i]]

toUpperCase(str) ==
    [i \in 1..Len(str) |->
        CASE str[i] = "a" -> "A" [] str[i] = "b" -> "B" [] str[i] = "c" -> "C"
          [] OTHER -> str[i]]

\* the schema's setters: email is trimmed and lowercased, collegeId uppercased
setEmail(v) == IF v = None THEN None ELSE Some(toLowerCase(trim(Get(v))))
setCollegeId(v) == IF v = None THEN None ELSE Some(toUpperCase(Get(v)))

\* User.findOne({ $or: [{ email }, { collegeId }] }), the filter cast by the schema
findExisting(users, b) ==
    {u \in DOMAIN users :
        \/ Some(users[u].email) = setEmail(b.email)
        \/ Some(users[u].collegeId) = setCollegeId(b.collegeId)}

\* new User({...}): the document register builds from the body
NewUser(b, id) ==
    [_id |-> [oid |-> id], email |-> setEmail(b.email), primaryRole |-> "student",
     secondaryRoles |-> {}, collegeId |-> setCollegeId(b.collegeId),
     fullName |-> b.name, isEmailVerified |-> FALSE, isActive |-> TRUE,
     password |-> b.password, lastLogin |-> None, loginCount |-> 0]

\* the required paths of userSchema that the bodies here can miss
ValidateUser(user) ==
    /\ IsSome(user.email) /\ IsSome(user.collegeId)
    /\ IsSome(user.password) /\ IsSome(user.fullName)

\* the unique indexes: a stored user holds the email or the collegeId
DuplicateKey(users, user) ==
    \E u \in DOMAIN users :
        \/ Some(users[u].email) = user.email
        \/ Some(users[u].collegeId) = user.collegeId

\* the stored form of a validated document
Stored(user) ==
    [user EXCEPT !.email = Get(@), !.collegeId = Get(@), !.fullName = Get(@),
                 !.password = Get(@)]

\* user.save() into a collection without the unique indexes
saveUser_noIndex(users, user, id) ==
    IF ~ValidateUser(user)
    THEN [users |-> users, code |-> 400, error |-> "Validation failed"]
    ELSE [users |-> users @@ (id :> Stored(user)), code |-> 201, error |-> ""]

\* user.save() and register's answer: a ValidationError, a duplicate key error
\* (code 11000) from the insert, or the inserted document
saveUser(users, user, id) ==
    IF ~ValidateUser(user)
    THEN [users |-> users, code |-> 400, error |-> "Validation failed"]
    ELSE IF DuplicateKey(users, user)
    THEN [users |-> users, code |-> 400,
          error |-> "Email or College ID already registered"]
    ELSE [users |-> users @@ (id :> Stored(user)), code |-> 201, error |-> ""]

\* the ObjectId of a new document: one no stored user has
NewIds == {"new1", "new2", "new3", "new4"}
NewId(users) == CHOOSE id \in NewIds : id \notin DOMAIN users

\* register bodies: two emails and two collegeIds, each in two spellings, the
\* email of a stored user, and a body without an email
RegisterUserBodies ==
    {[EmptyBody EXCEPT !.email = Some(e), !.collegeId = Some(c),
                       !.password = Some(<<"secret">>), !.name = Some("name")] :
        e \in {<<"a">>, <<"A", " ">>, <<"b">>}, c \in {<<"C", "1">>, <<"c", "1">>, <<"C", "2">>}}
    \cup {[EmptyBody EXCEPT !.email = Some(UserRecord("stu1").email),
                            !.collegeId = Some(<<"C", "2">>),
                            !.password = Some(<<"secret">>), !.name = Some("name")],
          [EmptyBody EXCEPT !.collegeId = Some(<<"C", "1">>),
                            !.password = Some(<<"secret">>), !.name = Some("name")]}

\* a register request starts: the lookup, and 400 if it finds a user
RegisterLookup(p) ==
    /\ reg[p].pc \in {"idle", "done"}
    /\ \E b \in RegisterUserBodies :
        reg' = [reg EXCEPT ![p] =
                  IF findExisting(ident, b) # {}
                  THEN [pc |-> "done", body |-> Some(b), code |-> 400,
                        created |-> None]
                  ELSE [pc |-> "looked", body |-> Some(b), code |-> 0,
                        created |-> None]]
    /\ UNCHANGED <<doc, born, now, last, pc, copy, arg, seen, ident, tok, sent, run>>

\* the request goes on: new User, save, and the response (with 201, a token that
\* generateToken makes for the new user)
RegisterSave(p) ==
    /\ reg[p].pc = "looked"
    /\ LET id == NewId(ident)
           r == saveUser(ident, NewUser(Get(reg[p].body), id), id)
       IN  /\ ident' = r.users
           /\ reg' = [reg EXCEPT ![p].pc = "done", ![p].code = r.code,
                                 ![p].created = IF r.code = 201 THEN Some(id)
                                                ELSE None]
    /\ UNCHANGED <<doc, born, now, last, pc, copy, arg, seen, tok, sent, run>>

NextRegister == \E p \in RegProcs : RegisterLookup(p) \/ RegisterSave(p)

SpecRegister == Init /\ [][NextRegister]_vars

----------------------------------------------------------------------------
(* Tournament requests that interleave.  A handler awaits twice: findById,  *)
(* and save (or deleteOne).  Between the two it tests and changes its own   *)
(* copy.  save() writes the paths the handler changed on its copy to the    *)
(* stored document, whatever that holds by then, and fails when the         *)
(* document is gone; deleteOne removes the document by its id.              *)

\* the requests that run interleaved
InterleavedRequests ==
    {[op |-> "approve", user |-> u, body |-> EmptyBody] : u \in {"fac1", "fac2"}}
    \cup {[op |-> "reject", user |-> "fac2",
           body |-> [EmptyBody EXCEPT
                       !.rejectionReason = Some(Rep("x", MinReasonLength))]]}
    \cup {[op |-> "update", user |-> "org1", body |-> b] : b \in UpdateBodies}
    \cup {[op |-> "delete", user |-> u, body |-> EmptyBody] : u \in {"org1", "adm1"}}

\* the handler of a request, run on the document it loaded
Handle(q, d, time) ==
    CASE q.op = "approve" -> approveTournament(d, q.user, q.body, time)
      [] q.op = "reject" -> rejectTournament(d, q.user, q.body, time)
      [] q.op = "update" -> updateTournament(d, q.user, q.body, time)
      [] q.op = "delete" -> deleteTournament(d, q.user, q.body, time)

\* save(): the paths that differ between the loaded and the changed copy are set
\* on the stored document
savePaths(stored, loaded, changed) ==
    [f \in DOMAIN stored |-> IF changed[f] # loaded[f] THEN changed[f] ELSE stored[f]]

\* a request loads the document and runs its handler up to the save: an error
\* response at once, or a changed copy (none for a delete) waiting to be persisted
Load(p) ==
    /\ run[p].pc = "idle"
    /\ doc # None
    /\ \E q \in InterleavedRequests :
        LET r == Handle(q, doc, now) IN
        run' = [run EXCEPT ![p] =
                  IF r.code = 200
                  THEN [pc |-> "saving", op |-> q.op, user |-> q.user, body |-> q.body,
                        loaded |-> doc, changed |-> r.doc, code |-> 0]
                  ELSE [pc |-> "done", op |-> q.op, user |-> q.user, body |-> q.body,
                        loaded |-> doc, changed |-> None, code |-> r.code]]
    /\ UNCHANGED <<doc, born, now, last, pc, copy, arg, seen, ident, tok, sent, reg>>

\* the request persists: deleteOne, or save, which throws when the document is gone
\* (answered 500); then the 200
Persist(p) ==
    /\ run[p].pc = "saving"
    /\ IF run[p].op = "delete"
       THEN /\ doc' = None
            /\ run' = [run EXCEPT ![p].pc = "done", ![p].code = 200]
       ELSE IF doc = None
       THEN /\ doc' = doc
            /\ run' = [run EXCEPT ![p].pc = "done", ![p].code = 500]
       ELSE /\ doc' = Some(savePaths(Get(doc), Get(run[p].loaded),
                                     Get(run[p].changed)))
            /\ run' = [run EXCEPT ![p].pc = "done", ![p].code = 200]
    /\ UNCHANGED <<born, now, last, pc, copy, arg, seen, ident, tok, sent, reg>>

NextInterleaved ==
    \/ Create
    \/ Submit
    \/ \E p \in Procs : Load(p) \/ Persist(p)

SpecInterleaved == Init /\ [][NextInterleaved]_vars

----------------------------------------------------------------------------
(* The model's own lifecycle methods.  No handler calls them; each tests    *)
(* the status, changes the document and saves, or returns having done       *)
(* nothing.                                                                 *)

\* tournamentSchema.methods.submitForApproval
methods_submitForApproval(t) ==
    IF t.requiresFacultyApproval /\ t.status = "draft"
    THEN [t EXCEPT !.status = "pending_approval"]
    ELSE t

\* tournamentSchema.methods.approveTournament
methods_approveTournament(t, facultyUserId, time) ==
    IF t.status = "pending_approval"
    THEN [t EXCEPT
            !.status = "registration_open",
            !.approvalStatus =
                [approved |-> TRUE, approvedBy |-> Some(facultyUserId),
                 approvedAt |-> Some(time), rejectionReason |-> None]]
    ELSE t

\* tournamentSchema.methods.rejectTournament
methods_rejectTournament(t, facultyUserId, reason, time) ==
    IF t.status = "pending_approval"
    THEN [t EXCEPT
            !.status = "rejected",
            !.approvalStatus =
                [approved |-> FALSE, approvedBy |-> Some(facultyUserId),
                 approvedAt |-> Some(time), rejectionReason |-> reason]]
    ELSE t

\* the faculty ids a caller passes, and the reasons the reject handler accepts
Faculty == {u \in Users : primaryRole(u) = "faculty"}
AcceptedReasons == {b \in RejectBodies : ~reasonTooShort(b.rejectionReason)}

\* a call of a method on the stored document, made while no request is between its
\* load and its save; a method answers nothing
CallMethod(name, u, b, t) ==
    /\ \A p \in Procs : run[p].pc # "saving"
    /\ Answer(name, u, b, Reply(Some(t), 0, ""))
    /\ UNCHANGED born

CallSubmitForApproval ==
    /\ doc # None
    /\ CallMethod("methods.submitForApproval", Get(doc).organizer, EmptyBody,
                  methods_submitForApproval(Get(doc)))

CallApproveTournament ==
    /\ doc # None
    /\ \E u \in Faculty :
        CallMethod("methods.approveTournament", u, EmptyBody,
                   methods_approveTournament(Get(doc), u, now))

CallRejectTournament ==
    /\ doc # None
    /\ \E u \in Faculty, b \in AcceptedReasons :
        CallMethod("methods.rejectTournament", u, b,
                   methods_rejectTournament(Get(doc), u, b.rejectionReason, now))

NextLifecycleMethods ==
    \/ NextInterleaved
    \/ CallSubmitForApproval
    \/ CallApproveTournament
    \/ CallRejectTournament

SpecLifecycleMethods == Init /\ [][NextLifecycleMethods]_vars

----------------------------------------------------------------------------
(* Properties.  last holds the latest request, its response and the stored *)
(* document as it was before the request (pre).                            *)

Pre == Get(last.pre)
Cur == Get(doc)
Existed == last.pre # None
Requested(op) == last.op = op
Succeeded(op) == last.op = op /\ last.code \in {200, 201}

ValidationMessage == "Rejection reason must be at least 10 characters"

\* the permission check each handler runs before it looks at the status
Permitted(op, t, u) ==
    CASE op = "submit" -> t.organizer = u
      [] op \in {"approve", "reject"} -> primaryRole(u) = "faculty"
      [] op \in {"update", "delete"} -> canUserManage(t, u) \/ primaryRole(u) = "admin"
      [] OTHER -> TRUE

\* the request is made outside the status precondition the table lists for it
OutsidePrecondition(op, t) ==
    CASE op = "submit" -> t.status # "draft"
      [] op \in {"approve", "reject"} -> t.status # "pending_approval"
      [] op \in {"update", "delete"} -> t.status \notin {"draft", "pending_approval"}
      [] OTHER -> FALSE

\* C1: every change of a stored tournament's status is a transition of the table:
\* draft to pending_approval by submit, pending_approval to registration_open by
\* approve, pending_approval to rejected by reject.
C1_StatusChangesFollowTable ==
    (Existed /\ doc # None /\ Cur.status # Pre.status) =>
        \/ Requested("submit") /\ Pre.status = "draft" /\ Cur.status = "pending_approval"
        \/ Requested("approve") /\ Pre.status = "pending_approval"
                                /\ Cur.status = "registration_open"
        \/ Requested("reject") /\ Pre.status = "pending_approval"
                               /\ Cur.status = "rejected"

\* C2 as stated: a submit, approve, reject, update or delete request made outside
\* its status precondition is answered 400 and leaves the stored tournament unchanged.
C2_OutsidePreconditionIs400 ==
    (Existed /\ OutsidePrecondition(last.op, Pre)) =>
        last.code = 400 /\ doc = last.pre

\* C2 amended: such a request is answered 400 when the requester passes the handler's
\* permission check and 403 when not, and in both cases nothing stored changes.
C2_OutsidePreconditionFails ==
    (Existed /\ OutsidePrecondition(last.op, Pre)) =>
        /\ last.code = (IF Permitted(last.op, Pre, last.user) THEN 400 ELSE 403)
        /\ doc = last.pre

C2_Witness ==
    /\ Requested("approve") /\ Existed /\ Pre.status = "registration_open"
    /\ primaryRole(last.user) = "faculty" /\ last.code = 400
    /\ Pre.approvalStatus.approved

\* C3: a successful create stores a tournament in draft when requiresFacultyApproval
\* is true or omitted and in registration_open when it is false, and the stored
\* requiresFacultyApproval flag agrees with that status.
C3_InitialStatus ==
    Succeeded("create") =>
        /\ last.pre = None /\ doc # None
        /\ Cur.status =
             (IF last.body.requiresFacultyApproval \in {None, Some(TRUE)}
              THEN "draft" ELSE "registration_open")
        /\ Cur.requiresFacultyApproval = (Cur.status = "draft")

C3_Witness ==
    /\ Succeeded("create") /\ last.body.requiresFacultyApproval = None
    /\ doc # None /\ Cur.status = "draft"

\* C4: a submit by the organizer of a draft tournament succeeds, sets status to
\* pending_approval and changes no other field.
C4_SubmitFrame ==
    (Requested("submit") /\ Existed /\ Pre.status = "draft"
        /\ last.user = Pre.organizer) =>
        /\ last.code = 200
        /\ doc = Some([Pre EXCEPT !.status = "pending_approval"])

C4_Witness ==
    /\ Succeeded("submit") /\ doc # None /\ Cur.status = "pending_approval"
    /\ Pre.status = "draft"

\* C5: an approve by a faculty identity of a pending_approval tournament sets status
\* to registration_open and approvalStatus to approved, approvedBy the requester,
\* approvedAt the time of the request; nothing else changes.
C5_ApproveEffect ==
    (Requested("approve") /\ Existed /\ Pre.status = "pending_approval"
        /\ primaryRole(last.user) = "faculty") =>
        /\ last.code = 200 /\ doc # None
        /\ Cur.status = "registration_open"
        /\ Cur.approvalStatus.approved
        /\ Cur.approvalStatus.approvedBy = Some(last.user)
        /\ Cur.approvalStatus.approvedAt = Some(last.at)
        /\ [Cur EXCEPT !.status = Pre.status, !.approvalStatus = Pre.approvalStatus] = Pre

\* the scenario's end: created needing approval, submitted, approved by another identity
C5_Witness ==
    /\ Succeeded("approve") /\ doc # None
    /\ Cur.requiresFacultyApproval /\ Cur.status = "registration_open"
    /\ Cur.approvalStatus.approved
    /\ Cur.organizer = "org1" /\ Cur.approvalStatus.approvedBy = Some("fac2")

RejectedWith(u, time, reason) ==
    [approved |-> FALSE, approvedBy |-> Some(u), approvedAt |-> Some(time),
     rejectionReason |-> reason]

\* C6 as stated: a reject by a faculty identity of a pending_approval tournament with
\* a reason of at least 10 characters sets status to rejected and stores the rejecting
\* identity, the time and exactly the reason sent.
C6_RejectByLength ==
    (Requested("reject") /\ Existed /\ Pre.status = "pending_approval"
        /\ primaryRole(last.user) = "faculty"
        /\ IsSome(last.body.rejectionReason)
        /\ Len(Get(last.body.rejectionReason)) >= MinReasonLength) =>
        /\ last.code = 200 /\ doc # None
        /\ Cur.status = "rejected"
        /\ Cur.approvalStatus =
             RejectedWith(last.user, last.at, last.body.rejectionReason)

\* C6 amended: the same, for a reason that has at least 10 characters once the
\* whitespace around it is trimmed; the reason is stored as sent, untrimmed.
C6_RejectByTrimmedLength ==
    (Requested("reject") /\ Existed /\ Pre.status = "pending_approval"
        /\ primaryRole(last.user) = "faculty"
        /\ IsSome(last.body.rejectionReason)
        /\ Len(trim(Get(last.body.rejectionReason))) >= MinReasonLength) =>
        /\ last.code = 200 /\ doc # None
        /\ Cur.status = "rejected"
        /\ Cur.approvalStatus =
             RejectedWith(last.user, last.at, last.body.rejectionReason)
        /\ [Cur EXCEPT !.status = Pre.status, !.approvalStatus = Pre.approvalStatus] = Pre

C6_Witness ==
    /\ Succeeded("reject") /\ doc # None /\ Cur.status = "rejected"
    /\ Cur.approvalStatus.rejectionReason = Some(<<" ">> \o Rep("x", MinReasonLength))

\* C7 as stated: a reject whose reason is absent or shorter than 10 characters is
\* answered with the validation error (400) whatever the status and changes nothing;
\* every reason of 10 or more characters passes the length check.
C7_ShortReasonByLength ==
    Requested("reject") =>
        IF last.body.rejectionReason = None
           \/ Len(Get(last.body.rejectionReason)) < MinReasonLength
        THEN last.code = 400 /\ last.error = ValidationMessage /\ doc = last.pre
        ELSE last.error # ValidationMessage

\* C7 amended: for a faculty requester (any other is answered 403 before the reason is
\* looked at) a reason that is absent or has fewer than 10 characters after trimming is
\* answered with the validation error (400) whatever the status, and a reason with 10 or
\* more characters after trimming passes the length check; a refused request of either
\* kind changes nothing.
C7_ShortReasonByTrimmedLength ==
    Requested("reject") =>
        IF primaryRole(last.user) # "faculty"
        THEN last.code = 403 /\ doc = last.pre
        ELSE IF last.body.rejectionReason = None
                \/ Len(trim(Get(last.body.rejectionReason))) < MinReasonLength
        THEN last.code = 400 /\ last.error = ValidationMessage /\ doc = last.pre
        ELSE last.error # ValidationMessage

C7_Witness ==
    /\ Requested("reject") /\ primaryRole(last.user) = "faculty"
    /\ last.body.rejectionReason = Some(Rep(" ", MinReasonLength))
    /\ Existed /\ Pre.status = "pending_approval"
    /\ last.code = 400 /\ doc = last.pre

\* C8: a successful update changes only updatable fields: status, approvalStatus and
\* every field outside the allowed list are as before, whatever the body carries.
C8_UpdateKeepsStatus ==
    Succeeded("update") =>
        /\ Existed /\ doc # None
        /\ Cur.status = Pre.status
        /\ Cur.approvalStatus = Pre.approvalStatus
        /\ [Cur EXCEPT !.name = Pre.name, !.registrationEnd = Pre.registrationEnd,
                       !.registrationType = Pre.registrationType,
                       !.maxTeams = Pre.maxTeams] = Pre

\* C9: with requests handled one at a time, a stored tournament never holds more
\* registered teams than its maxTeams.
C9_CapacityRespected ==
    doc # None => Len(Cur.registeredTeams) <= Cur.maxTeams

C9_Witness ==
    /\ Requested("registerTeam") /\ last.code = 400
    /\ Existed /\ canRegister(Pre, last.at)
    /\ Len(Pre.registeredTeams) = Pre.maxTeams /\ doc = last.pre

----------------------------------------------------------------------------
(* Permissions *)

ManagementOps == {"update", "delete", "submit"}

\* canManage as the specification words it
ManagesByWords(t, u) ==
    \/ t.organizer = u
    \/ t.approvalStatus.approvedBy = Some(u)
    \/ primaryRole(u) = "admin"

\* C15: canManage holds of an identity exactly when it is the organizer, the identity
\* recorded in approvalStatus.approvedBy, or an admin; an identity that is neither
\* organizer nor admin has it only as the approver on record, which it becomes only
\* by its own successful approve or reject request.
C15_CanManageIff ==
    doc # None =>
        \A u \in Users :
            /\ canUserManage(Cur, u) <=> ManagesByWords(Cur, u)
            /\ (canUserManage(Cur, u) /\ Cur.organizer # u /\ primaryRole(u) # "admin")
                   => Cur.approvalStatus.approvedBy = Some(u)
            /\ (Existed /\ canUserManage(Cur, u) /\ ~ManagesByWords(Pre, u))
                   => last.op \in {"approve", "reject"} /\ last.user = u /\ last.code = 200

\* the faculty who rejected a tournament it does not organize manages it afterwards
C15_Witness ==
    /\ Succeeded("reject") /\ doc # None
    /\ Cur.organizer # last.user /\ ~canUserManage(Pre, last.user)
    /\ canUserManage(Cur, last.user) /\ ~Cur.approvalStatus.approved

\* C16: a create request by an identity whose primary role is not organizer, faculty
\* or admin, and an approve or reject request by one whose primary role is not
\* faculty, are answered 403 and create or change nothing, whatever the secondary
\* roles; canApprove holds iff the primary role is faculty and the status is
\* pending_approval.
C16_RoleGates ==
    /\ (Requested("create")
            /\ primaryRole(last.user) \notin {"organizer", "faculty", "admin"})
          => last.code = 403 /\ doc = last.pre /\ doc = None
    /\ (last.op \in {"approve", "reject"} /\ primaryRole(last.user) # "faculty")
          => last.code = 403 /\ doc = last.pre
    /\ doc # None =>
          \A u \in Users :
              canApprove(Cur, u) <=>
                  (primaryRole(u) = "faculty" /\ Cur.status = "pending_approval")

\* a student holding the secondary role co_organizer is refused creation
C16_Witness ==
    /\ Requested("create") /\ last.code = 403
    /\ primaryRole(last.user) = "student" /\ "co_organizer" \in secondaryRoles(last.user)
    /\ doc = None

\* C17 as stated: update, delete and submit are gated by canManage alone: where the
\* operation is otherwise allowed, the request is permitted if canManage holds and is
\* answered 403 without changing the tournament if not.
C17_SameGate ==
    (Existed /\ last.op \in ManagementOps /\ ~OutsidePrecondition(last.op, Pre)) =>
        IF ManagesByWords(Pre, last.user)
        THEN last.code # 403
        ELSE last.code = 403 /\ doc = last.pre

\* C17 amended: update and delete are gated by canManage; submit is gated by being
\* the organizer. Where the operation is otherwise allowed, the request is permitted
\* if its gate holds and answered 403 without changing the tournament if not.
C17_ManageGates ==
    (Existed /\ last.op \in ManagementOps /\ ~OutsidePrecondition(last.op, Pre)) =>
        LET gate == IF last.op = "submit"
                    THEN Pre.organizer = last.user
                    ELSE ManagesByWords(Pre, last.user)
        IN  IF gate
            THEN last.code # 403
            ELSE last.code = 403 /\ doc = last.pre

\* an admin, who has canManage, is refused the submission of another's draft
C17_Witness ==
    /\ Existed /\ Requested("submit") /\ Pre.status = "draft"
    /\ primaryRole(last.user) = "admin" /\ canUserManage(Pre, last.user)
    /\ last.code = 403 /\ doc = last.pre

\* what a request left alone apart from the approval-related fields
SameButApproval(t, s) ==
    [t EXCEPT !.approvalStatus = s.approvalStatus, !.status = s.status] = s

\* C18 as stated: no update, delete or submit request by an identity other than the
\* organizer changes or removes a tournament that is not approved; once it is
\* approved, admin and faculty identities change approval-related fields only.
C18_OrganizerOnlyUntilApproved ==
    /\ (Existed /\ last.op \in ManagementOps /\ ~Pre.approvalStatus.approved
            /\ last.user # Pre.organizer)
          => doc = last.pre
    /\ (Existed /\ Pre.approvalStatus.approved
            /\ primaryRole(last.user) \in {"admin", "faculty"})
          => doc # None /\ SameButApproval(Cur, Pre)

\* C18 amended: no update, delete or submit request by an identity that is neither
\* the organizer nor an admin changes or removes a tournament that is not approved,
\* and no submit request by an identity other than the organizer does; once it is
\* approved, admin and faculty identities change approval-related fields only.
C18_OrganizerOrAdminUntilApproved ==
    /\ (Existed /\ last.op \in ManagementOps /\ ~Pre.approvalStatus.approved
            /\ last.user # Pre.organizer
            /\ (primaryRole(last.user) # "admin" \/ last.op = "submit"))
          => doc = last.pre
    /\ (Existed /\ Pre.approvalStatus.approved
            /\ primaryRole(last.user) \in {"admin", "faculty"})
          => doc # None /\ SameButApproval(Cur, Pre)

\* an admin removes a draft it does not organize
C18_Witness ==
    /\ Existed /\ Succeeded("delete") /\ doc = None
    /\ ~Pre.approvalStatus.approved /\ Pre.status = "draft"
    /\ primaryRole(last.user) = "admin" /\ last.user # Pre.organizer

----------------------------------------------------------------------------
(* The lifecycle as a whole *)

LifecycleOps == {"update", "delete", "submit", "approve", "reject"}

\* C24: rejected and registration_open are terminal: on a tournament in either status
\* every update, delete, submit, approve and reject request fails, and no request
\* changes its status or approvalStatus or removes it; no tournament ever has status
\* registration_closed, ongoing, completed or cancelled.
C24_TerminalStatuses ==
    /\ (Existed /\ Pre.status \in {"rejected", "registration_open"}) =>
          /\ last.op \in LifecycleOps => last.code \in {400, 403}
          /\ doc # None
          /\ Cur.status = Pre.status
          /\ Cur.approvalStatus = Pre.approvalStatus
    /\ doc # None =>
          Cur.status \notin {"registration_closed", "ongoing", "completed", "cancelled"}

\* the organizer's delete of a rejected tournament is refused
C24_Witness ==
    /\ Existed /\ Requested("delete") /\ Pre.status = "rejected"
    /\ last.user = Pre.organizer
    /\ last.code = 400 /\ doc = last.pre

\* C25: status draft or pending_approval implies requiresFacultyApproval; status
\* registration_open implies approved or not requiresFacultyApproval; approved implies
\* status registration_open and a faculty approvedBy; a rejectionReason implies status
\* rejected.
C25_StatusAgreesWithApproval ==
    doc # None =>
        /\ Cur.status \in {"draft", "pending_approval"} => Cur.requiresFacultyApproval
        /\ Cur.status = "registration_open" =>
              (Cur.approvalStatus.approved \/ ~Cur.requiresFacultyApproval)
        /\ Cur.approvalStatus.approved =>
              /\ Cur.status = "registration_open"
              /\ IsSome(Cur.approvalStatus.approvedBy)
              /\ primaryRole(Get(Cur.approvalStatus.approvedBy)) = "faculty"
        /\ IsSome(Cur.approvalStatus.rejectionReason) => Cur.status = "rejected"

\* a draft opened for registration by an update that drops the approval requirement
C25_Witness ==
    /\ Succeeded("update") /\ Existed /\ doc # None
    /\ Pre.status = "draft" /\ Cur.status = "registration_open"
    /\ ~Cur.approvalStatus.approved /\ ~Cur.requiresFacultyApproval

----------------------------------------------------------------------------
(* Properties of the document methods, checked under SpecMethods *)

\* the registration window as the specification words it
WindowOpen(t, time) ==
    IF IsSome(t.registrationStart)
    THEN Get(t.registrationStart) <= time /\ time <= Get(t.registrationEnd)
    ELSE time <= Get(t.registrationEnd)

\* C11: registerTeam succeeds exactly when status is registration_open, the time is in
\* the registration window and fewer than maxTeams teams are registered; a success
\* appends exactly one record and changes nothing else, a failure changes nothing.
C11_RegisterTeamIff ==
    Requested("registerTeam") =>
        IF /\ Pre.status = "registration_open"
           /\ WindowOpen(Pre, last.at)
           /\ Len(Pre.registeredTeams) < Pre.maxTeams
        THEN /\ last.error = ""
             /\ Len(Cur.registeredTeams) = Len(Pre.registeredTeams) + 1
             /\ SubSeq(Cur.registeredTeams, 1, Len(Pre.registeredTeams))
                    = Pre.registeredTeams
             /\ [Cur EXCEPT !.registeredTeams = Pre.registeredTeams] = Pre
        ELSE last.error # "" /\ doc = last.pre

C11_Witness ==
    /\ Requested("registerTeam") /\ last.error = ""
    /\ IsSome(Pre.registrationStart) /\ Get(Pre.registrationStart) = last.at
    /\ Len(Cur.registeredTeams) = Pre.maxTeams

\* C12 as stated: a failed registration names the rule it broke: the error of a full
\* tournament differs from the error the tournament gives when it is not open.
C12_DistinctErrors ==
    (Requested("registerTeam") /\ last.error # ""
        /\ Pre.status = "registration_open"
        /\ Len(Pre.registeredTeams) = Pre.maxTeams) =>
        last.error #
            callRegisterTeam([Pre EXCEPT !.status = "registration_closed",
                                         !.registeredTeams = << >>],
                             Get(last.body.team), Get(last.body.captain),
                             last.at).error

\* C13: the record a successful registerTeam appends carries the team and captain
\* given, and is approved exactly when the registrationType is not 'team'.
C13_AppendedRecord ==
    (Requested("registerTeam") /\ last.error = "") =>
        LET r == Cur.registeredTeams[Len(Cur.registeredTeams)]
        IN  /\ r.team = Get(last.body.team)
            /\ r.captain = Get(last.body.captain)
            /\ r.approved = (Pre.registrationType \in {"solo", "hybrid"})
            /\ Pre.registrationType = "team" => ~r.approved

C13_Witness ==
    /\ Requested("registerTeam") /\ last.error = ""
    /\ Pre.registrationType = "solo"
    /\ Cur.registeredTeams[Len(Cur.registeredTeams)].approved
    /\ Cur.registeredTeams[Len(Cur.registeredTeams)].team = "teamB"

\* C14: registerSolo succeeds exactly when canRegister holds and registrationType is
\* not 'team'; a success appends one soloPlayers record with matched = false and
\* changes nothing else, a failure throws 'Solo registration not allowed' and changes
\* nothing; the number of registered teams plays no part.
C14_RegisterSoloIff ==
    Requested("registerSolo") =>
        IF /\ Pre.status = "registration_open"
           /\ WindowOpen(Pre, last.at)
           /\ Pre.registrationType # "team"
        THEN /\ last.error = ""
             /\ Cur.soloPlayers =
                  Append(Pre.soloPlayers,
                         [player |-> last.user, registeredAt |-> last.at,
                          matched |-> FALSE])
             /\ Cur.registeredTeams = Pre.registeredTeams
             /\ [Cur EXCEPT !.soloPlayers = Pre.soloPlayers] = Pre
        ELSE last.error = "Solo registration not allowed" /\ doc = last.pre

\* a solo registration accepted by a tournament that is full of teams
C14_Witness ==
    /\ Requested("registerSolo") /\ last.error = ""
    /\ Len(Pre.registeredTeams) = Pre.maxTeams
    /\ Len(Pre.soloPlayers) >= Pre.maxTeams

----------------------------------------------------------------------------
(* Properties of tokens, checked under SpecToken *)

AuthOps == {"create", "submit", "approve"}

\* the token of the last request's header
SentToken == Get(Get(sent).token)

\* C19: verifying a token issued for an identity returns the claims that were issued
\* (identity ID, email, primary role, secondary roles, institutional ID, full name,
\* email-verification flag) at every time less than 7 days after issuance, and fails
\* with 'Token expired' at every time from 7 days after issuance on.
C19_VerifyReturnsIssuedClaims ==
    tok # None =>
        LET user == UserRecord(Get(tok).for)
            v == verifyToken(Get(tok).token, now)
        IN  IF now < Get(tok).at + 7
            THEN /\ v.error = ""
                 /\ Get(v.decoded).userId = Get(tok).for
                 /\ Get(v.decoded).email = user.email
                 /\ Get(v.decoded).primaryRole = user.primaryRole
                 /\ Get(v.decoded).secondaryRoles = user.secondaryRoles
                 /\ Get(v.decoded).collegeId = user.collegeId
                 /\ Get(v.decoded).fullName = user.fullName
                 /\ Get(v.decoded).isEmailVerified = user.isEmailVerified
            ELSE v.error = "Token expired" /\ v.decoded = None

\* a token with secondary roles in its last valid day, and an expired one
C19_Witness ==
    /\ tok # None /\ Get(tok).at = 0
    /\ secondaryRoles(Get(tok).for) # {}
    /\ now = Get(tok).at + 7
    /\ verifyToken(Get(tok).token, now).error = "Token expired"
    /\ verifyToken(Get(tok).token, now - 1).error = ""

\* C20: a request carrying a token issued before the identity was deactivated or its
\* role changed still passes requireAuth while the token has not expired, and the
\* handler decides on the role and identity claims of the token, not on the stored
\* identity.
C20_TokenOutlivesIdentityChanges ==
    (last.op \in AuthOps /\ sent # None /\ Get(sent).scheme = Bearer
        /\ Get(sent).token # None
        /\ SentToken.signature = Secret /\ last.at < SentToken.exp) =>
        LET c == SentToken.payload
        IN  /\ last.code # 401
            /\ last.user = c.userId
            /\ last.op = "create" =>
                 (last.code = 403 <=>
                    c.primaryRole \notin {"organizer", "faculty", "admin"})
            /\ last.op = "approve" =>
                 (last.code = 403 <=> c.primaryRole # "faculty")
            /\ (last.op = "submit" /\ Existed) =>
                 (last.code = 403 <=> Pre.organizer # c.userId)

\* a deactivated faculty whose stored role is now student approves a tournament
C20_Witness ==
    /\ Succeeded("approve") /\ last.user \in TokenUsers
    /\ ~ident[last.user].isActive
    /\ ident[last.user].primaryRole = "student"
    /\ Cur.approvalStatus.approvedBy = Some(last.user)

----------------------------------------------------------------------------
(* Properties of authentication, checked under SpecAuth *)

\* the header carries nothing that authenticates the request at that time
Unauthenticated(h, time) ==
    \/ h = None
    \/ Get(h).scheme # Bearer
    \/ Get(h).token = None
    \/ Get(Get(h).token).signature # Secret
    \/ time >= Get(Get(h).token).exp

\* C21: a request to a protected route with no Authorization header, with a header
\* that is not a Bearer token, or with a token that is expired or whose signature
\* does not verify is answered 401, with 'Token expired' for an expired token and
\* the invalid-token error for a bad signature, and changes no tournament.
C21_Unauthenticated401 ==
    (last.op \in AuthOps /\ Unauthenticated(sent, last.at)) =>
        /\ last.code = 401
        /\ doc = last.pre
        /\ (sent # None /\ Get(sent).scheme = Bearer /\ Get(sent).token # None) =>
              IF SentToken.signature # Secret
              THEN last.error = "Invalid token. Please login again."
              ELSE last.error = "Token expired"

\* C22: a login for an identity with isActive = false returns 403 whether the
\* password is right or wrong, issues no token and leaves every stored identity as
\* it was; lastLogin and loginCount change only by a login that returns 200, which
\* adds exactly one to loginCount and sets lastLogin to the time of the login.
C22_LoginBookkeeping ==
    [][/\ (last' # last /\ last'.op = "login" /\ last'.user \in DOMAIN ident
              /\ ~ident[last'.user].isActive)
            => last'.code = 403 /\ tok' = tok /\ ident' = ident
       /\ \A u \in DOMAIN ident :
            (\/ ident'[u].loginCount # ident[u].loginCount
             \/ ident'[u].lastLogin # ident[u].lastLogin)
               => /\ last'.op = "login" /\ last'.code = 200 /\ last'.user = u
                  /\ ident'[u].loginCount = ident[u].loginCount + 1
                  /\ ident'[u].lastLogin = Some(now)
       /\ (last' # last /\ last'.op = "login" /\ last'.code = 200)
            => /\ ident'[last'.user].loginCount = ident[last'.user].loginCount + 1
               /\ ident'[last'.user].lastLogin = Some(now)
      ]_vars

\* a deactivated identity, holding a token from an earlier login, is refused a login
\* with a wrong password
C22_Witness ==
    /\ last.op = "login" /\ last.code = 403
    /\ last.body.password = Some(<<"wrong", "password">>)
    /\ ~ident[last.user].isActive
    /\ ident[last.user].loginCount = 1
    /\ Holds(last.user)

----------------------------------------------------------------------------
(* Properties of registration, checked under SpecRegister *)

\* two register bodies name the same email or the same collegeId
SameIdentity(b, c) ==
    \/ setEmail(b.email) # None /\ setEmail(b.email) = setEmail(c.email)
    \/ setCollegeId(b.collegeId) = setCollegeId(c.collegeId)

\* C23: no two stored identities share an email or a collegeId, also when register
\* requests interleave between lookup and save; a request that duplicates either is
\* answered 400 and creates no identity; of two requests that duplicate one another
\* at most one gets 201; every identity register creates has primary role student.
C23_UniqueIdentities ==
    /\ \A u, v \in DOMAIN ident :
          u # v => /\ ident[u].email # ident[v].email
                   /\ ident[u].collegeId # ident[v].collegeId
    /\ \A u \in DOMAIN ident \ Users : ident[u].primaryRole = "student"
    /\ \A p \in RegProcs :
          reg[p].pc = "done" =>
              LET b == Get(reg[p].body) IN
              /\ reg[p].code \in {201, 400}
              /\ reg[p].code = 201 <=> reg[p].created # None
              /\ reg[p].code = 201 =>
                    /\ Get(reg[p].created) \in DOMAIN ident
                    /\ Some(ident[Get(reg[p].created)].email) = setEmail(b.email)
              /\ (reg[p].code = 400 /\ b.email # None) =>
                    \E u \in DOMAIN ident :
                        \/ Some(ident[u].email) = setEmail(b.email)
                        \/ Some(ident[u].collegeId) = setCollegeId(b.collegeId)
    /\ \A p, q \in RegProcs :
          (p # q /\ reg[p].pc = "done" /\ reg[q].pc = "done"
                /\ SameIdentity(Get(reg[p].body), Get(reg[q].body)))
             => ~(reg[p].code = 201 /\ reg[q].code = 201
                    /\ reg[p].created # reg[q].created)

\* two requests with the same email in different spellings both passed the lookup;
\* one was created, the other refused by the insert
C23_Witness ==
    /\ reg["g1"].pc = "done" /\ reg["g2"].pc = "done"
    /\ reg["g1"].code = 201 /\ reg["g2"].code = 400
    /\ Get(reg["g1"].body).email = Some(<<"A", " ">>)
    /\ Get(reg["g2"].body).email = Some(<<"a">>)
    /\ Get(reg["g1"].body).collegeId # Get(reg["g2"].body).collegeId
    /\ Cardinality(DOMAIN ident) = Cardinality(Users) + 1

----------------------------------------------------------------------------
(* Properties of interleaved requests, checked under SpecInterleaved *)

Decisions == {"approve", "reject"}

\* C26: of an approve and a reject request, or two such requests by different
\* faculty, that interleave on one pending tournament, at most one is answered with
\* success, and the stored status and approvalStatus come from one request.
C26_SingleDecision ==
    \A p, q \in Procs :
        (/\ p # q
         /\ run[p].op \in Decisions /\ run[q].op \in Decisions
         /\ (run[p].op # run[q].op \/ run[p].user # run[q].user)
         /\ run[p].pc = "done" /\ run[q].pc = "done"
         /\ run[p].loaded = run[q].loaded
         /\ Get(run[p].loaded).status = "pending_approval") =>
            /\ ~(run[p].code = 200 /\ run[q].code = 200)
            /\ doc # None =>
                  \/ Cur.status = "registration_open" /\ Cur.approvalStatus.approved
                  \/ Cur.status = "rejected" /\ ~Cur.approvalStatus.approved

\* C27: an update or delete request that loaded the tournament in draft or
\* pending_approval and persists after an approve has saved does not change the
\* approved tournament's fields or status and does not remove it.
C27_ApprovedIsFrozen ==
    [][\A p \in Procs :
          (/\ run[p].pc = "saving" /\ run'[p].pc = "done"
           /\ run[p].op \in {"update", "delete"}
           /\ doc # None /\ Get(doc).approvalStatus.approved)
             => doc' = doc
      ]_vars

----------------------------------------------------------------------------
(* Properties of the model's lifecycle methods, checked under               *)
(* SpecLifecycleMethods                                                     *)

\* the handler that makes the same transition as a method, run by a caller it
\* admits on the document the method is called on
HandlerOf(name, d, u, b, time) ==
    CASE name = "methods.submitForApproval" -> submitForApproval(d, u, b, time)
      [] name = "methods.approveTournament" -> approveTournament(d, u, b, time)
      [] name = "methods.rejectTournament" -> rejectTournament(d, u, b, time)

LifecycleMethods ==
    {"methods.submitForApproval", "methods.approveTournament",
     "methods.rejectTournament"}

\* a step that is a call of the method
Calls(name) == last'.op = name /\ last'.pre = doc /\ run' = run

\* C28: on a tournament the handlers can produce, a lifecycle method of the model
\* leaves the status and approvalStatus the handler's transition leaves when the
\* handler's status precondition holds, and leaves the tournament as it was when
\* it does not.
C28_MethodsMatchHandlers ==
    [][\A name \in LifecycleMethods :
          Calls(name) =>
              LET h == HandlerOf(name, doc, last'.user, last'.body, now) IN
              /\ h.code = 200 =>
                    /\ Get(doc').status = Get(h.doc).status
                    /\ Get(doc').approvalStatus = Get(h.doc).approvalStatus
              /\ h.code # 200 => doc' = doc
      ]_vars

====
